---- MODULE Spec2Model ----
(***************************************************************************)
(* Model of the sentiment-acquisition pipeline of app.py: the upload       *)
(* handler upload_file (file-type gate, process_file, the per-review loop  *)
(* around analyze_sentiment with its retry loop, classify_sentiment, the   *)
(* counters and the rounded summary).                                      *)
(*                                                                         *)
(* Text that the code inspects character by character (file names, the     *)
(* model's reply) is a sequence of one-character strings.  Proportions are *)
(* kept in hundredths (0.33 is 33).                                        *)
(***************************************************************************)
EXTENDS Integers, Sequences, FiniteSets, TLC

VARIABLES
    upload,            \* the POSTed form: file part, its name, its real format, its table
    pc,                \* position of the handler
    parsedAs,          \* which pandas reader process_file called ("none" before)
    exception,         \* uncaught exception that ended the handler ("none" if none)
    reviews,           \* process_file's review list
    idx,               \* number of reviews the for loop has consumed
    positive_count,
    negative_count,
    neutral_count,
    results,           \* list of {"review", "sentiment"}
    flashes,           \* messages passed to flash(), in order
    sentiment_summary, \* <<>> until computed, then <<summary>>
    attempt,           \* loop variable of analyze_sentiment
    sentiment_result,  \* value returned by analyze_sentiment
    statuses,          \* outcome of each requests.post of the running call, in order
    sleeps,            \* argument of each time.sleep of the running call, in order
    calls              \* number of analyze_sentiment calls started

vars == <<upload, pc, parsedAs, exception, reviews, idx, positive_count,
          negative_count, neutral_count, results, flashes, sentiment_summary,
          attempt, sentiment_result, statuses, sleeps, calls>>

----------------------------------------------------------------------------
(* Bounds *)

MaxRows == 2

MaxFrags == 2

MaxN == 8

----------------------------------------------------------------------------
(* Characters and strings *)

Uppers == <<"A","B","C","D","E","F","G","H","I","J","K","L","M",
            "N","O","P","Q","R","S","T","U","V","W","X","Y","Z">>

Lowers == <<"a","b","c","d","e","f","g","h","i","j","k","l","m",
            "n","o","p","q","r","s","t","u","v","w","x","y","z">>

LowerChar(c) ==
    IF \E i \in 1..Len(Uppers) : Uppers[i] = c
    THEN Lowers[CHOOSE i \in 1..Len(Uppers) : Uppers[i] = c]
    ELSE c

\* str.lower()
Lower(s) == [i \in 1..Len(s) |-> LowerChar(s[i])]

\* sub in s
Contains(s, sub) ==
    \E i \in 1..(Len(s) - Len(sub) + 1) : SubSeq(s, i, i + Len(sub) - 1) = sub

\* s.endswith(suffix)
EndsWith(s, suffix) ==
    /\ Len(s) >= Len(suffix)
    /\ SubSeq(s, Len(s) - Len(suffix) + 1, Len(s)) = suffix

\* s.rsplit('.', 1)[1] for a string s that contains a '.'
RsplitExt(s) ==
    LET last == CHOOSE i \in 1..Len(s) :
                    /\ s[i] = "."
                    /\ \A j \in (i + 1)..Len(s) : s[j] /= "."
    IN  SubSeq(s, last + 1, Len(s))

----------------------------------------------------------------------------
(* Literals of app.py *)

KwPositive == <<"p","o","s","i","t","i","v","e">>

KwNegative == <<"n","e","g","a","t","i","v","e">>

DotCsv == <<".","c","s","v">>

ALLOWED_EXTENSIONS == { <<"c","s","v">>, <<"x","l","s","x">> }

NaN == "NaN"

MsgNoFilePart == "No file part"

MsgNoSelectedFile == "No selected file"

MsgAllowedTypes == "Allowed file types are CSV, XLSX"

MsgMissingColumn == "Missing 'Review' column in file."

MsgFlashPrefix == "Error analyzing sentiment for review: "

ErrNoContent == "Sentiment content not found in the response."

ErrNoChoices == "No choices found in the API response."

ErrHttp == "HTTP error: "

ErrRequest == "Request failed: "

ErrRateLimit == "Failed after multiple retries due to rate limiting."

retry_attempts_two == 3 - 1

retry_attempts == 3

----------------------------------------------------------------------------
(* Values *)

\* a message passed to flash(); error and status carry the per-review reason
Flash(text, error, status) == [text |-> text, error |-> error, status |-> status]

\* return {"sentiment": content}
Sentiment(content) == [tag |-> "sentiment", content |-> content, error |-> "", status |-> 0]

\* return {"error": error}; status is the <details> of an HTTP error
Error(error, status) == [tag |-> "error", content |-> <<>>, error |-> error, status |-> status]

NoResult == [tag |-> "none", content |-> <<>>, error |-> "", status |-> 0]

----------------------------------------------------------------------------
(* Inputs *)

Exts == { <<>>, DotCsv, <<".","C","S","V">>, <<".","x","l","s","x">>,
          <<".","X","L","S","X">>, <<".","t","x","t">>, DotCsv \o <<".","t","x","t">> }

\* '', a, a.csv, a.CSV, a.xlsx, a.XLSX, a.txt, a.csv.txt
FileNames == { <<>> } \cup { <<"a">> \o e : e \in Exts }

Formats == { "csv", "excel" }

ColumnSets == { {"Review", "Rating"}, {"review", "Rating"}, {"Rating"} }

Cells == { NaN, "r1", "r2" }

RowSeqs == UNION { [1..n -> Cells] : n \in 0..MaxRows }

Uploads ==
    { [hasFile |-> FALSE, filename |-> <<>>, format |-> "csv",
       columns |-> {"Review"}, rows |-> <<>>] }
    \cup
    [hasFile : {TRUE}, filename : FileNames, format : Formats,
     columns : ColumnSets, rows : RowSeqs]

\* pieces of the model's natural-language reply
Fragments == { <<"P","o","s","i","t","i","v","e">>,
               <<"N","E","G","A","T","I","V","E">>,
               <<"n","e","g","a">>,
               <<"t","i","v","e">>,
               <<" ","o","k"," ">> }

RECURSIVE Concat(_)
Concat(ss) == IF ss = <<>> THEN <<>> ELSE Head(ss) \o Concat(Tail(ss))

ReplyTexts == { Concat(fs) : fs \in UNION { [1..n -> Fragments] : n \in 0..MaxFrags } }

\* the replies the whole-pipeline specification draws from
SampleTexts == { <<>>,
                 <<"P","o","s","i","t","i","v","e">>,
                 <<"N","E","G","A","T","I","V","E">>,
                 <<"N","E","G","A","T","I","V","E">> \o <<"P","o","s","i","t","i","v","e">>,
                 <<" ","o","k"," ">> }

\* a completion choice: "message" and "content" keys may be absent
ChoicesOf(texts) ==
    { [hasMessage |-> FALSE, hasContent |-> FALSE, content |-> <<>>],
      [hasMessage |-> TRUE, hasContent |-> FALSE, content |-> <<>>] }
    \cup [hasMessage : {TRUE}, hasContent : {TRUE}, content : texts]

SecondChoice == [hasMessage |-> TRUE, hasContent |-> TRUE, content |-> KwNegative]

\* a 2xx JSON body: the "choices" key may be absent, the list may be empty
BodiesOf(texts) ==
    { [hasChoices |-> FALSE, choices |-> <<>>], [hasChoices |-> TRUE, choices |-> <<>>] }
    \cup { [hasChoices |-> TRUE, choices |-> <<c>>] : c \in ChoicesOf(texts) }
    \cup { [hasChoices |-> TRUE, choices |-> <<c, SecondChoice>>] :
                c \in { d \in ChoicesOf(texts) : Len(d.content) <= Len(KwPositive) } }

\* error statuses other than 429 that raise_for_status turns into HTTPError
OtherErrorStatuses == { 404, 500 }

----------------------------------------------------------------------------
(* Functions of app.py *)

allowed_file(filename) ==
    /\ Contains(filename, <<".">>)
    /\ Lower(RsplitExt(filename)) \in ALLOWED_EXTENSIONS

\* the reader process_file picks
Reader(filename) == IF EndsWith(filename, DotCsv) THEN "csv" ELSE "excel"

HasReviewColumnAnyCase(columns) == "Review" \in columns \/ "review" \in columns

HasReviewColumn(columns) == "Review" \in columns

\* df['Review'].dropna().tolist()
DropNa(rows) == SelectSeq(rows, LAMBDA c : c /= NaN)

classify_sentiment_negfirst(sentiment_content) ==
    LET sentiment_content_lower == Lower(sentiment_content)
    IN  IF Contains(sentiment_content_lower, KwNegative) THEN "negative"
        ELSE IF Contains(sentiment_content_lower, KwPositive) THEN "positive"
        ELSE "neutral"

classify_sentiment(sentiment_content) ==
    LET sentiment_content_lower == Lower(sentiment_content)
    IN  IF Contains(sentiment_content_lower, KwPositive) THEN "positive"
        ELSE IF Contains(sentiment_content_lower, KwNegative) THEN "negative"
        ELSE "neutral"

\* the 2xx branch of analyze_sentiment
ParseResponse(response_data) ==
    LET choices == response_data.choices
    IN  IF response_data.hasChoices /\ Len(choices) > 0
        THEN LET first == choices[1]
             IN  IF first.hasMessage /\ first.hasContent /\ first.content /= <<>>
                 THEN Sentiment(first.content)
                 ELSE Error(ErrNoContent, 0)
        ELSE Error(ErrNoChoices, 0)

BackoffLinear(k) == k + 1

\* time.sleep(2 ** attempt)
Backoff(k) == 2 ^ k

LabelOfErrorNeutral(result) ==
    IF result.tag = "sentiment" THEN classify_sentiment(result.content) ELSE "neutral"

\* the label upload_file gives a review
LabelOf(result) ==
    IF result.tag = "sentiment" THEN classify_sentiment(result.content) ELSE "unknown"

WarningsDropped(fl, result) == fl

\* the flash of a per-review failure
Warnings(fl, result) ==
    IF result.tag = "sentiment" THEN fl
    ELSE Append(fl, Flash(MsgFlashPrefix, result.error, result.status))

CountsUnknownSkipped(sentiment, p, n, z) ==
    IF sentiment = "positive" THEN <<p + 1, n, z>>
    ELSE IF sentiment = "negative" THEN <<p, n + 1, z>>
    ELSE IF sentiment = "neutral" THEN <<p, n, z + 1>>
    ELSE <<p, n, z>>

\* the three counters after one more label
Counts(sentiment, p, n, z) ==
    IF sentiment = "positive" THEN <<p + 1, n, z>>
    ELSE IF sentiment = "negative" THEN <<p, n + 1, z>>
    ELSE <<p, n, z + 1>>

Round2Truncate(count, total) == (100 * count) \div total

\* round(count / total, 2) in hundredths.  round() goes to the nearest
\* hundredth and, on an exact tie, to the even one; for total < 40 every tie
\* count/total is a multiple of 1/8 and so exact as a float.
Round2(count, total) ==
    LET q == (100 * count) \div total
        r == (100 * count) % total
    IN  IF 2 * r < total THEN q
        ELSE IF 2 * r > total THEN q + 1
        ELSE IF q % 2 = 0 THEN q ELSE q + 1

----------------------------------------------------------------------------
(* The POST handler upload_file *)

Init ==
    /\ upload \in Uploads
    /\ pc = "request"
    /\ parsedAs = "none"
    /\ exception = "none"
    /\ reviews = <<>>
    /\ idx = 0
    /\ positive_count = 0
    /\ negative_count = 0
    /\ neutral_count = 0
    /\ results = <<>>
    /\ flashes = <<>>
    /\ sentiment_summary = <<>>
    /\ attempt = 0
    /\ sentiment_result = NoResult
    /\ statuses = <<>>
    /\ sleeps = <<>>
    /\ calls = 0

\* flash(message); return redirect(request.url)
Redirect(message) ==
    /\ flashes' = Append(flashes, Flash(message, "", 0))
    /\ pc' = "redirect"
    /\ UNCHANGED <<upload, exception, reviews, idx, positive_count, negative_count,
                   neutral_count, results, sentiment_summary, attempt,
                   sentiment_result, statuses, sleeps, calls>>

\* 'file' not in request.files
NoFilePart ==
    /\ pc = "request"
    /\ ~upload.hasFile
    /\ Redirect(MsgNoFilePart)
    /\ UNCHANGED parsedAs

\* file.filename == ''
NoSelectedFile ==
    /\ pc = "request"
    /\ upload.hasFile
    /\ upload.filename = <<>>
    /\ Redirect(MsgNoSelectedFile)
    /\ UNCHANGED parsedAs

\* the else branch of: if file and allowed_file(file.filename)
RejectType ==
    /\ pc = "request"
    /\ upload.hasFile
    /\ upload.filename /= <<>>
    /\ ~allowed_file(upload.filename)
    /\ Redirect(MsgAllowedTypes)
    /\ UNCHANGED parsedAs

Accepted ==
    /\ pc = "request"
    /\ upload.hasFile
    /\ upload.filename /= <<>>
    /\ allowed_file(upload.filename)

\* pd.read_csv / pd.read_excel raises on a file of the other format; nothing
\* catches it
ParseError ==
    /\ Accepted
    /\ Reader(upload.filename) /= upload.format
    /\ parsedAs' = Reader(upload.filename)
    /\ exception' = "ParseError"
    /\ pc' = "error500"
    /\ UNCHANGED <<upload, reviews, idx, positive_count, negative_count, neutral_count,
                   results, flashes, sentiment_summary, attempt, sentiment_result,
                   statuses, sleeps, calls>>

\* process_file returns (None, error); upload_file flashes it and redirects
MissingColumn ==
    /\ Accepted
    /\ Reader(upload.filename) = upload.format
    /\ ~HasReviewColumn(upload.columns)
    /\ parsedAs' = Reader(upload.filename)
    /\ Redirect(MsgMissingColumn)

\* process_file returns (reviews, None); the counters and results are set up
Ingest ==
    /\ Accepted
    /\ Reader(upload.filename) = upload.format
    /\ HasReviewColumn(upload.columns)
    /\ parsedAs' = Reader(upload.filename)
    /\ reviews' = DropNa(upload.rows)
    /\ positive_count' = 0
    /\ negative_count' = 0
    /\ neutral_count' = 0
    /\ results' = <<>>
    /\ idx' = 0
    /\ pc' = "loop"
    /\ UNCHANGED <<upload, exception, flashes, sentiment_summary, attempt,
                   sentiment_result, statuses, sleeps, calls>>

\* for review in reviews: sentiment_result = analyze_sentiment(review)
Call ==
    /\ pc = "loop"
    /\ idx < Len(reviews)
    /\ calls' = calls + 1
    /\ attempt' = 0
    /\ statuses' = <<>>
    /\ sleeps' = <<>>
    /\ pc' = "post"
    /\ UNCHANGED <<upload, parsedAs, exception, reviews, idx, positive_count,
                   negative_count, neutral_count, results, flashes, sentiment_summary,
                   sentiment_result>>

\* analyze_sentiment returns result after a request that ended with status
Return(status, result) ==
    /\ statuses' = Append(statuses, status)
    /\ sentiment_result' = result
    /\ pc' = "ret"
    /\ UNCHANGED <<upload, parsedAs, exception, reviews, idx, positive_count,
                   negative_count, neutral_count, results, flashes, sentiment_summary,
                   attempt, sleeps, calls>>

\* requests.post answers 2xx: the body is parsed
PostOk ==
    /\ pc = "post"
    /\ attempt < retry_attempts
    /\ \E body \in BodiesOf(SampleTexts) : Return(200, ParseResponse(body))

\* requests.post answers 429: HTTPError is caught, the backoff branch is taken
Post429 ==
    /\ pc = "post"
    /\ attempt < retry_attempts
    /\ statuses' = Append(statuses, 429)
    /\ pc' = "sleep"
    /\ UNCHANGED <<upload, parsedAs, exception, reviews, idx, positive_count,
                   negative_count, neutral_count, results, flashes, sentiment_summary,
                   attempt, sentiment_result, sleeps, calls>>

\* requests.post answers another error status
PostHttpError ==
    /\ pc = "post"
    /\ attempt < retry_attempts
    /\ \E status \in OtherErrorStatuses : Return(status, Error(ErrHttp, status))

\* requests.post raises a RequestException (status 0 stands for no response)
PostTransportError ==
    /\ pc = "post"
    /\ attempt < retry_attempts
    /\ Return(0, Error(ErrRequest, 0))

\* time.sleep(2 ** attempt), then the next iteration of the for loop
Sleep ==
    /\ pc = "sleep"
    /\ sleeps' = Append(sleeps, Backoff(attempt))
    /\ attempt' = attempt + 1
    /\ pc' = "post"
    /\ UNCHANGED <<upload, parsedAs, exception, reviews, idx, positive_count,
                   negative_count, neutral_count, results, flashes, sentiment_summary,
                   sentiment_result, statuses, calls>>

\* range(retry_attempts) is used up: the return after the for loop
Exhausted ==
    /\ pc = "post"
    /\ attempt >= retry_attempts
    /\ sentiment_result' = Error(ErrRateLimit, 0)
    /\ pc' = "ret"
    /\ UNCHANGED <<upload, parsedAs, exception, reviews, idx, positive_count,
                   negative_count, neutral_count, results, flashes, sentiment_summary,
                   attempt, statuses, sleeps, calls>>

\* the rest of the loop body for the returned result: label, flash, counters,
\* results.append; the locals of the finished analyze_sentiment call are gone
RecordOf(result) ==
    LET sentiment == LabelOf(result)
        c == Counts(sentiment, positive_count, negative_count, neutral_count)
    IN  /\ flashes' = Warnings(flashes, result)
        /\ positive_count' = c[1]
        /\ negative_count' = c[2]
        /\ neutral_count' = c[3]
        /\ results' = Append(results, [review |-> reviews[idx + 1], sentiment |-> sentiment])
        /\ idx' = idx + 1
        /\ attempt' = 0
        /\ statuses' = <<>>
        /\ sleeps' = <<>>
        /\ sentiment_result' = result
        /\ pc' = "loop"
        /\ UNCHANGED <<upload, parsedAs, exception, reviews, sentiment_summary>>

Record ==
    /\ pc = "ret"
    /\ RecordOf(sentiment_result)
    /\ UNCHANGED calls

\* after the loop: total_reviews = len(reviews), the three round(.../total_reviews, 2)
\* and render_template; the division raises ZeroDivisionError when total_reviews is 0
Summarize ==
    /\ pc = "loop"
    /\ idx = Len(reviews)
    /\ LET total_reviews == Len(reviews)
       IN  IF total_reviews = 0
           THEN /\ exception' = "ZeroDivisionError"
                /\ pc' = "error500"
                /\ UNCHANGED sentiment_summary
           ELSE /\ sentiment_summary' =
                       << [positive |-> Round2(positive_count, total_reviews),
                           negative |-> Round2(negative_count, total_reviews),
                           neutral |-> Round2(neutral_count, total_reviews)] >>
                /\ pc' = "done"
                /\ UNCHANGED exception
    /\ UNCHANGED <<upload, parsedAs, reviews, idx, positive_count, negative_count,
                   neutral_count, results, flashes, attempt, sentiment_result,
                   statuses, sleeps, calls>>

Next ==
    \/ NoFilePart
    \/ NoSelectedFile
    \/ RejectType
    \/ ParseError
    \/ MissingColumn
    \/ Ingest
    \/ Call
    \/ PostOk
    \/ Post429
    \/ PostHttpError
    \/ PostTransportError
    \/ Sleep
    \/ Exhausted
    \/ Record
    \/ Summarize

Spec == Init /\ [][Next]_vars

----------------------------------------------------------------------------
(* The loop and the summary alone, for files of up to MaxN reviews: each     *)
(* analyze_sentiment call is taken in one step, its result drawn from the   *)
(* values the call can return.                                              *)

AggReviews == { [i \in 1..n |-> "r1"] : n \in 1..MaxN }

AggOutcomes == { Sentiment(KwPositive), Sentiment(KwNegative),
                 Sentiment(<<" ","o","k"," ">>), Error(ErrRateLimit, 0) }

\* the state Ingest leaves for a well-formed a.csv
InitAgg ==
    /\ \E rs \in AggReviews :
          /\ upload = [hasFile |-> TRUE, filename |-> <<"a">> \o DotCsv, format |-> "csv",
                       columns |-> {"Review"}, rows |-> rs]
          /\ reviews = rs
    /\ pc = "loop"
    /\ parsedAs = "csv"
    /\ exception = "none"
    /\ idx = 0
    /\ positive_count = 0
    /\ negative_count = 0
    /\ neutral_count = 0
    /\ results = <<>>
    /\ flashes = <<>>
    /\ sentiment_summary = <<>>
    /\ attempt = 0
    /\ sentiment_result = NoResult
    /\ statuses = <<>>
    /\ sleeps = <<>>
    /\ calls = 0

CallAndRecord ==
    /\ pc = "loop"
    /\ idx < Len(reviews)
    /\ calls' = calls + 1
    /\ \E result \in AggOutcomes : RecordOf(result)

NextAgg ==
    \/ CallAndRecord
    \/ Summarize

SpecAgg == InitAgg /\ [][NextAgg]_vars

----------------------------------------------------------------------------
(* One review, with the reply drawn from every text of up to MaxFrags       *)
(* fragments.                                                               *)

\* the state Ingest leaves for a well-formed a.csv of one review
InitReply ==
    /\ upload = [hasFile |-> TRUE, filename |-> <<"a">> \o DotCsv, format |-> "csv",
                 columns |-> {"Review"}, rows |-> <<"r1">>]
    /\ reviews = <<"r1">>
    /\ pc = "loop"
    /\ parsedAs = "csv"
    /\ exception = "none"
    /\ idx = 0
    /\ positive_count = 0
    /\ negative_count = 0
    /\ neutral_count = 0
    /\ results = <<>>
    /\ flashes = <<>>
    /\ sentiment_summary = <<>>
    /\ attempt = 0
    /\ sentiment_result = NoResult
    /\ statuses = <<>>
    /\ sleeps = <<>>
    /\ calls = 0

PostOkAnyReply ==
    /\ pc = "post"
    /\ attempt < retry_attempts
    /\ \E body \in BodiesOf(ReplyTexts) : Return(200, ParseResponse(body))

NextReply ==
    \/ Call
    \/ PostOkAnyReply
    \/ Post429
    \/ PostHttpError
    \/ PostTransportError
    \/ Sleep
    \/ Exhausted
    \/ Record
    \/ Summarize

SpecReply == InitReply /\ [][NextReply]_vars

----------------------------------------------------------------------------
(* Properties *)

InCall == pc \in {"post", "sleep", "ret"}

\* the run is past the loop body at least once
Recorded == pc \in {"loop", "done"} /\ idx > 0

Abs(x) == IF x < 0 THEN -x ELSE x

\* kw occurs in text, letters compared without regard to case
SameLetter(a, b) ==
    \/ a = b
    \/ \E i \in 1..Len(Uppers) : {a, b} = {Uppers[i], Lowers[i]}

OccursIgnoringCase(kw, text) ==
    \E i \in 1..Len(text) :
        /\ i + Len(kw) - 1 <= Len(text)
        /\ \A j \in 1..Len(kw) : SameLetter(text[i + j - 1], kw[j])

LabelsIn(set) == Cardinality({ j \in 1..Len(results) : results[j].sentiment \in set })

\* C1: within one analyze_sentiment call a request after the first is issued
\* only when every earlier request of the call got 429 and a wait followed it;
\* the waits are 1, 2, 4 seconds in this order; at most 3 requests are issued;
\* a non-429 error status or a transport failure is the last request of the
\* call, is followed by no wait and returns an error at once.
C1_RetryOnlyOn429 ==
    InCall =>
        /\ Len(statuses) <= 3
        /\ \A i \in 1..(Len(statuses) - 1) : statuses[i] = 429
        /\ Len(sleeps) <= 3
        /\ \A k \in 1..Len(sleeps) : sleeps[k] = <<1, 2, 4>>[k] /\ statuses[k] = 429
        /\ pc = "post" => Len(sleeps) = Len(statuses)
        /\ pc = "sleep" => Len(sleeps) = Len(statuses) - 1
        /\ \A i \in 1..Len(statuses) :
              statuses[i] \notin {200, 429} =>
                  /\ i = Len(statuses)
                  /\ pc = "ret"
                  /\ sentiment_result.tag = "error"
                  /\ sentiment_result.error = (IF statuses[i] = 0 THEN ErrRequest ELSE ErrHttp)
                  /\ Len(sleeps) = i - 1

C1_Witness ==
    /\ pc = "ret"
    /\ statuses = <<429, 429, 500>>
    /\ sleeps = <<1, 2>>
    /\ sentiment_result = Error(ErrHttp, 500)

\* C2: analyze_sentiment returns the rate-limiting failure exactly when the
\* call made 3 requests that all got 429; the review it was returned for is
\* labelled unknown; unknown labels are counted in neutral_count, which is the
\* count the summary's neutral proportion is computed from.
C2_RateLimitExhausted ==
    /\ pc = "ret" =>
          (sentiment_result.error = ErrRateLimit <=> statuses = <<429, 429, 429>>)
    /\ (Recorded /\ sentiment_result.error = ErrRateLimit) =>
          results[idx].sentiment = "unknown"
    /\ neutral_count = LabelsIn({"neutral", "unknown"})
    /\ pc = "done" =>
          2 * Abs(100 * neutral_count - Len(reviews) * sentiment_summary[1].neutral)
              <= Len(reviews)

C2_Witness ==
    /\ pc = "done"
    /\ sentiment_result = Error(ErrRateLimit, 0)
    /\ results[idx].sentiment = "unknown"
    /\ LabelsIn({"unknown"}) = Len(results)
    /\ sentiment_summary = << [positive |-> 0, negative |-> 0, neutral |-> 100] >>

\* C3: the label recorded for a result is unknown exactly when the result is
\* an error; for a sentiment text it is positive iff "positive" occurs in the
\* text ignoring case, else negative iff "negative" does, else neutral.
C3_LabelNormalization ==
    Recorded =>
        LET label == results[idx].sentiment
            text == sentiment_result.content
            pos == OccursIgnoringCase(KwPositive, text)
            neg == OccursIgnoringCase(KwNegative, text)
        IN  /\ label = "unknown" <=> sentiment_result.tag = "error"
            /\ sentiment_result.tag = "sentiment" =>
                  /\ label = "positive" <=> pos
                  /\ label = "negative" <=> (~pos /\ neg)
                  /\ label = "neutral" <=> (~pos /\ ~neg)

C3_Witness ==
    /\ Recorded
    /\ sentiment_result.tag = "sentiment"
    /\ OccursIgnoringCase(KwPositive, sentiment_result.content)
    /\ OccursIgnoringCase(KwNegative, sentiment_result.content)
    /\ ~Contains(sentiment_result.content, KwPositive)
    /\ results[idx].sentiment = "positive"

\* C4: a file without a column named exactly 'Review' never leads to an
\* analyze_sentiment call, a request, a result or a summary, and once it is
\* parsed the handler has flashed "Missing 'Review' column in file." and
\* redirected.
C4_MissingColumnAborts ==
    (upload.hasFile /\ "Review" \notin upload.columns) =>
        /\ calls = 0
        /\ statuses = <<>>
        /\ results = <<>>
        /\ sentiment_summary = <<>>
        /\ pc \notin {"loop", "post", "sleep", "ret", "done"}
        /\ (parsedAs = upload.format /\ exception = "none") =>
              /\ pc = "redirect"
              /\ flashes = << Flash(MsgMissingColumn, "", 0) >>

C4_Witness ==
    /\ pc = "redirect"
    /\ "review" \in upload.columns
    /\ "Review" \notin upload.columns
    /\ Len(upload.rows) > 0
    /\ parsedAs = upload.format
    /\ flashes = << Flash(MsgMissingColumn, "", 0) >>
    /\ calls = 0

C6_RoundedProportions ==
    pc = "done" =>
        LET N == Len(reviews)
            s == sentiment_summary[1]
        IN  /\ N > 0
            /\ positive_count + negative_count + neutral_count = N
            /\ 2 * Abs(100 * positive_count - N * s.positive) <= N
            /\ 2 * Abs(100 * negative_count - N * s.negative) <= N
            /\ 2 * Abs(100 * neutral_count - N * s.neutral) <= N
            /\ Abs(s.positive + s.negative + s.neutral - 100) <= 3
            /\ (positive_count = 1 /\ negative_count = 1 /\ neutral_count = 1) =>
                  s = [positive |-> 33, negative |-> 33, neutral |-> 33]

C6_Witness ==
    /\ pc = "done"
    /\ Len(reviews) = 3
    /\ positive_count = 1
    /\ negative_count = 1
    /\ neutral_count = 1
    /\ sentiment_summary = << [positive |-> 33, negative |-> 33, neutral |-> 33] >>

\* C7: when the ingested review list is empty the handler does not end in an
\* exception; it ends with an empty result list and an all-zero summary.
C7_EmptyInputDefined ==
    (parsedAs = upload.format /\ HasReviewColumn(upload.columns) /\ reviews = <<>>
        /\ pc \notin {"request", "loop"}) =>
        /\ exception = "none"
        /\ pc = "done"
        /\ results = <<>>
        /\ sentiment_summary = << [positive |-> 0, negative |-> 0, neutral |-> 0] >>

\* C8: the loop takes the reviews one at a time in input order: after i
\* reviews the result list is the first i reviews with their labels, the
\* three counters add up to i, analyze_sentiment has been called once per
\* processed review plus once for the review in progress, and a finished run
\* has one result per review.
C8_SequentialInOrder ==
    /\ idx <= Len(reviews)
    /\ Len(results) = idx
    /\ \A j \in 1..Len(results) : results[j].review = reviews[j]
    /\ positive_count = LabelsIn({"positive"})
    /\ negative_count = LabelsIn({"negative"})
    /\ positive_count + negative_count + neutral_count = idx
    /\ calls = idx + (IF InCall THEN 1 ELSE 0)
    /\ InCall => idx < Len(reviews)
    /\ pc = "done" => Len(results) = Len(reviews)

C8_Witness ==
    /\ pc = "done"
    /\ reviews = <<"r2", "r1">>
    /\ results[1] = [review |-> "r2", sentiment |-> "unknown"]
    /\ results[2] = [review |-> "r1", sentiment |-> "positive"]
    /\ neutral_count = 1
    /\ calls = 2

\* C9: a file name whose extension is csv or xlsx in any letter case is
\* read with the reader of that format, and any other name is rejected
\* before process_file.
C9_GateAndParserAgree ==
    (pc /= "request" /\ upload.hasFile /\ upload.filename /= <<>>) =>
        LET name == upload.filename
            dotted == \E i \in 1..Len(name) : name[i] = "."
            ext == IF dotted THEN Lower(RsplitExt(name)) ELSE <<>>
        IN  /\ ext = <<"c","s","v">> => parsedAs = "csv"
            /\ ext = <<"x","l","s","x">> => parsedAs = "excel"
            /\ ext \notin ALLOWED_EXTENSIONS => (parsedAs = "none" /\ pc = "redirect")

\* C10: when analyze_sentiment returns, every wait of the call was followed
\* by another request.
C10_WaitThenRetry ==
    pc = "ret" => Len(sleeps) < Len(statuses)

====
